---- MODULE Spec2Model ----
(***************************************************************************)
(* Playback scheduler of the Map component (src/components/Map.tsx):       *)
(* startAnimation, its per-frame callback animate, the delayed resume      *)
(* callback of a waypoint pause, and the photo list the run reads.         *)
(*                                                                         *)
(* Units.  Times are milliseconds, as in the source.  Coordinates are      *)
(* integers in units of 0.0001 degree, so the source's 0.0005 degree       *)
(* proximity threshold is 5.  An interpolated coordinate is a rational     *)
(* with denominator duration; it is kept as its numerator (the coordinate  *)
(* times duration), so interpolation and the threshold test are exact.     *)
(***************************************************************************)
EXTENDS Integers, Sequences, FiniteSets, TLC

(***************************************************************************)
(* Program constants                                                       *)
(***************************************************************************)
duration == 60000

PauseDelay == 1000

GalleryDelay == 3000

Threshold == 5

(***************************************************************************)
(* Bounds of the exploration                                               *)
(***************************************************************************)
MaxCoarse == 2

MaxFine == 2

MaxPhotos == 2

MaxFrameIds == 3

MaxGalleryTimers == 1

MaxSamples == 30

(* The wall-clock instants the exploration samples: steps of one pause     *)
(* delay from 0 on, then half-duration marks.                              *)
Coarse == duration \div 2

Fine == PauseDelay

Instants == { f * Fine : f \in 0..MaxFine } \cup { c * Coarse : c \in 1..MaxCoarse }

(***************************************************************************)
(* Inputs: the trackGeoJSON prop and the EXIF positions of uploaded photos *)
(***************************************************************************)
(* A track is the LineString feature of the prop: hasLine says whether the *)
(* feature exists, coordinates are its <<lng, lat>> points, hasTimes says  *)
(* whether properties.coordTimes is present, coordTimes are its instants   *)
(* in ms.  Segments are parallel to an axis (see DistKm).                  *)
NoLineTrack ==
    [hasLine |-> FALSE, coordinates |-> << >>, hasTimes |-> FALSE,
     coordTimes |-> << >>]

EmptyTrack ==
    [hasLine |-> TRUE, coordinates |-> << >>, hasTimes |-> FALSE,
     coordTimes |-> << >>]

TwoPointTrack ==
    [hasLine |-> TRUE, coordinates |-> << <<0, 0>>, <<0, 10>> >>,
     hasTimes |-> TRUE, coordTimes |-> <<0, 10000>>]

Tracks == {NoLineTrack, EmptyTrack, TwoPointTrack}

(* Tracks for the pace block: without coordTimes, with a coordTimes array  *)
(* shorter or longer than the coordinates, a slow segment (11 m in 60 s),  *)
(* equal and decreasing instants, two samples at the same place, and a     *)
(* timed segment followed by one of no duration.                           *)
NoTimesTrack ==
    [hasLine |-> TRUE, coordinates |-> << <<0, 0>>, <<0, 10>> >>,
     hasTimes |-> FALSE, coordTimes |-> << >>]

ShortTimesTrack ==
    [hasLine |-> TRUE, coordinates |-> << <<0, 0>>, <<0, 10>> >>,
     hasTimes |-> TRUE, coordTimes |-> << 0 >>]

LongTimesTrack ==
    [hasLine |-> TRUE, coordinates |-> << <<0, 0>>, <<0, 10>> >>,
     hasTimes |-> TRUE, coordTimes |-> <<0, 10000, 20000>>]

SlowTrack ==
    [hasLine |-> TRUE, coordinates |-> << <<0, 0>>, <<0, 1>> >>,
     hasTimes |-> TRUE, coordTimes |-> <<0, 60000>>]

ZeroDeltaTrack ==
    [hasLine |-> TRUE, coordinates |-> << <<0, 0>>, <<0, 10>> >>,
     hasTimes |-> TRUE, coordTimes |-> <<5000, 5000>>]

BackwardsTrack ==
    [hasLine |-> TRUE, coordinates |-> << <<0, 0>>, <<0, 10>> >>,
     hasTimes |-> TRUE, coordTimes |-> <<10000, 0>>]

ZeroDistTrack ==
    [hasLine |-> TRUE, coordinates |-> << <<0, 0>>, <<0, 0>> >>,
     hasTimes |-> TRUE, coordTimes |-> <<0, 10000>>]

MixedTrack ==
    [hasLine |-> TRUE, coordinates |-> << <<0, 0>>, <<0, 10>>, <<0, 20>> >>,
     hasTimes |-> TRUE, coordTimes |-> <<0, 10000, 10000>>]

(* 111 m in 13.31 s: 1.995 minutes per km *)
RoundUpTrack ==
    [hasLine |-> TRUE, coordinates |-> << <<0, 0>>, <<0, 10>> >>,
     hasTimes |-> TRUE, coordTimes |-> <<0, 13310>>]

PaceTracks ==
    {TwoPointTrack, NoTimesTrack, ShortTimesTrack, LongTimesTrack, SlowTrack,
     ZeroDeltaTrack, BackwardsTrack, ZeroDistTrack, MixedTrack, RoundUpTrack}

(* Tracks for the interpolation: 2 to 5 points, with turns *)
ThreePointTrack ==
    [hasLine |-> TRUE, coordinates |-> << <<0, 0>>, <<0, 10>>, <<10, 10>> >>,
     hasTimes |-> FALSE, coordTimes |-> << >>]

FourPointTrack ==
    [hasLine |-> TRUE,
     coordinates |-> << <<0, 0>>, <<0, 10>>, <<10, 10>>, <<10, 4>> >>,
     hasTimes |-> FALSE, coordTimes |-> << >>]

FivePointTrack ==
    [hasLine |-> TRUE,
     coordinates |-> << <<0, 0>>, <<0, 10>>, <<10, 10>>, <<10, 4>>, <<3, 4>> >>,
     hasTimes |-> FALSE, coordTimes |-> << >>]

PositionTracks ==
    {TwoPointTrack, ThreePointTrack, FourPointTrack, FivePointTrack}

(* values of animationProgressTime.current the interpolation is applied to *)
SampleStep == duration \div 24

ElapsedSamples == { k * SampleStep : k \in 0..MaxSamples }

(* Photo lists for the proximity test on TwoPointTrack: one located photo  *)
(* on, next to, or 0.0005 degrees off the track's axis                     *)
ProxLats == {0, 5, 10}

ProxLngs == {0, 4, 5, 6}

ProxPhotos ==
    { << [id |-> 1, lat |-> la, lng |-> lo, shown |-> FALSE, hasGPS |-> TRUE] >> :
          la \in ProxLats, lo \in ProxLngs }

(* <<lat, lng>> pairs a photo's EXIF block may resolve to *)
ExifPositions == { <<6, 0>> }

VARIABLES
    now,                    \* performance.now()
    mapCurrent,             \* map.current # null
    trackGeoJSON,           \* the trackGeoJSON prop
    isPlaying,              \* isPlayingRef.current (and the isPlaying state)
    isPaused,               \* isPausedRef.current
    lastPaceUpdateTime,     \* lastPaceUpdateTime.current
    animationProgressTime,  \* animationProgressTime.current (elapsedMs)
    lastFrameTime,          \* lastFrameTime.current
    shownPhotoIds,          \* shownPhotoIds.current
    photos,                 \* the photos state
    activePhoto,            \* the activePhoto state (0 = null)
    animationFrameId,       \* animationFrameId.current (0 = null)
    frames,                 \* callbacks requestAnimationFrame holds
    timers,                 \* resume callbacks setTimeout holds
    runnerPoint,            \* data of the 'runner-point' source
    camera,                 \* last map.jumpTo argument (<< >> before any)
    paceText,               \* paceRef.current.innerText (NoPanel = not mounted)
    recorder,               \* mediaRecorderRef.current state
    trigCount,              \* observation: pauses begun per photo in this run
    lastTick,               \* observation: what the last animate call of
                            \* this run did: its return, the photo it paused
                            \* on, the photos inside the box, and those of
                            \* them not yet shown
    lastResume,             \* observation: when the latest resume callback
                            \* since startAnimation ran (-1 = none), and
                            \* whether an unpaused animate call has followed
    galleryTimers,          \* setActivePhoto(null) callbacks the gallery's
                            \* setTimeout holds (their due times)
    step,                   \* the step state of the Home page
    fetches,                \* calls of loadDemoRoute that await fetch or text
    lastLoad                \* observation: how the latest load ended

vars == << now, mapCurrent, trackGeoJSON, isPlaying, isPaused,
           lastPaceUpdateTime, animationProgressTime, lastFrameTime,
           shownPhotoIds, photos, activePhoto, animationFrameId, frames,
           timers, runnerPoint, camera, paceText, recorder, trigCount,
           lastTick, lastResume, galleryTimers, step, fetches, lastLoad >>

(* the Home page's own variables (trackGeoJSON is its state too) *)
home == << step, fetches, lastLoad >>

(***************************************************************************)
(* Pure helpers of animate                                                 *)
(***************************************************************************)
Min(a, b) == IF a <= b THEN a ELSE b

Abs(x) == IF x < 0 THEN -x ELSE x

totalPoints(track) == Len(track.coordinates)

(* progress * duration, progress = Math.min(elapsed / duration, 1) *)
ProgressNum(elapsed) == Min(elapsed, duration)

(* floatIndex * duration, floatIndex = progress * (totalPoints - 1) *)
FloatIndexNum(elapsed, track) == ProgressNum(elapsed) * (totalPoints(track) - 1)

(* Math.round in place of Math.floor *)
Index_Rounded(elapsed, track) ==
    (FloatIndexNum(elapsed, track) + duration \div 2) \div duration

(* Math.floor(floatIndex) *)
Index(elapsed, track) == FloatIndexNum(elapsed, track) \div duration

NextIndex(elapsed, track) ==
    Min(Index(elapsed, track) + 1, totalPoints(track) - 1)

(* ratio * duration, ratio = floatIndex - index *)
RatioNum(elapsed, track) ==
    FloatIndexNum(elapsed, track) - Index(elapsed, track) * duration

(* coordinates[i] is an element of the array (i is the 0-based JS index) *)
HasPoint(track, i) == 0 <= i /\ i < totalPoints(track)

Point(track, i) == track.coordinates[i + 1]

(* !currentP || !nextP *)
FrameMalformed(elapsed, track) ==
    \/ ~HasPoint(track, Index(elapsed, track))
    \/ ~HasPoint(track, NextIndex(elapsed, track))

(* no interpolation: the segment's first sample *)
Interpolate_Nearest(cur, nxt, ratioNum) == cur * duration

(* (currentP[k] + (nextP[k] - currentP[k]) * ratio) * duration *)
Interpolate(cur, nxt, ratioNum) == cur * duration + (nxt - cur) * ratioNum

LngNum(elapsed, track) ==
    Interpolate(Point(track, Index(elapsed, track))[1],
                Point(track, NextIndex(elapsed, track))[1],
                RatioNum(elapsed, track))

LatNum(elapsed, track) ==
    Interpolate(Point(track, Index(elapsed, track))[2],
                Point(track, NextIndex(elapsed, track))[2],
                RatioNum(elapsed, track))

(* a test that lets a distance of exactly 0.0005 through *)
InBox_Inclusive(photo, latNum, lngNum) ==
    /\ Abs(photo.lat * duration - latNum) <= Threshold * duration
    /\ Abs(photo.lng * duration - lngNum) <= Threshold * duration

(* dLat < 0.0005 && dLng < 0.0005 *)
InBox(photo, latNum, lngNum) ==
    /\ Abs(photo.lat * duration - latNum) < Threshold * duration
    /\ Abs(photo.lng * duration - lngNum) < Threshold * duration

(* the loop without its "already shown" skip *)
Matches_IgnoringShown(photo, shown, latNum, lngNum) ==
    InBox(photo, latNum, lngNum)

(* the photo loop's test of one photo: not yet shown, and inside the box *)
Matches(photo, shown, latNum, lngNum) ==
    /\ photo.id \notin shown
    /\ InBox(photo, latNum, lngNum)

(* a loop that looks at the first photo only *)
FirstMatch_OnlyFirst(ph, shown, latNum, lngNum) ==
    IF Len(ph) > 0 /\ Matches(ph[1], shown, latNum, lngNum) THEN 1 ELSE 0

(* a loop that keeps the last match instead of breaking on the first *)
FirstMatch_KeepsLast(ph, shown, latNum, lngNum) ==
    LET hits == { i \in 1..Len(ph) : Matches(ph[i], shown, latNum, lngNum) }
    IN  IF hits = {} THEN 0
        ELSE CHOOSE i \in hits : \A j \in hits : i >= j

(* index (1-based) of the photo the loop breaks on, 0 when it runs out *)
FirstMatch(ph, shown, latNum, lngNum) ==
    LET hits == { i \in 1..Len(ph) : Matches(ph[i], shown, latNum, lngNum) }
    IN  IF hits = {} THEN 0
        ELSE CHOOSE i \in hits : \A j \in hits : i <= j

(* a bearing that is never reduced modulo 360 *)
Bearing_Unwrapped(elapsed) == elapsed * 2

(* (elapsed * rotationSpeed) % 360 in hundredths of a degree *)
Bearing(elapsed) == (elapsed * 2) % 36000

(***************************************************************************)
(* Pace: getDistanceFromLatLonInKm and the "Calculate Pace" block          *)
(***************************************************************************)
(* Haversine distance in units of 1/2000000 km.  For the short axis-       *)
(* parallel segments near the equator that Tracks holds, the great-circle  *)
(* distance is 6371 * pi / 180 km per degree = 0.0111195 km per coordinate *)
(* unit, i.e. 22239 per unit.                                              *)
DistKm(lat1, lon1, lat2, lon2) == 22239 * (Abs(lat2 - lat1) + Abs(lon2 - lon1))

(* timeDiffHours in units of 1/18000000 hour, as a one-element tuple;      *)
(* << >> is NaN (a coordTimes entry that does not exist).  The default     *)
(* 0.000277 h is 4986 units, a difference of d ms is 5 * d units.          *)
TimeDiffHours(track, index, nextIndex) ==
    IF ~track.hasTimes THEN << 4986 >>
    ELSE IF index + 1 > Len(track.coordTimes)
            \/ nextIndex + 1 > Len(track.coordTimes) THEN << >>
    ELSE << 5 * (track.coordTimes[nextIndex + 1] - track.coordTimes[index + 1]) >>

(* a guard that lets a zero time difference through *)
PaceOf_ZeroDeltaPasses(track, index, nextIndex) ==
    LET a == Point(track, index)
        b == Point(track, nextIndex)
        dist == DistKm(a[2], a[1], b[2], b[1])
        h == TimeDiffHours(track, index, nextIndex)
    IN  IF h = << >> \/ dist <= 0 THEN << >>
        ELSE IF h[1] < 0 THEN << >>
        ELSE LET P == 20 * h[1]
                 Q == 3 * dist
                 min == P \div Q
                 sec == (120 * (P % Q) + Q) \div (2 * Q)
             IN  << min, sec >>

(* The pace block: pace = 60 / (dist / timeDiffHours) minutes per km is    *)
(* the fraction P / Q, min = Math.floor(pace), sec = Math.round((pace -    *)
(* min) * 60); << >> when the guard dist > 0 && timeDiffHours > 0 fails.   *)
PaceOf(track, index, nextIndex) ==
    LET a == Point(track, index)
        b == Point(track, nextIndex)
        dist == DistKm(a[2], a[1], b[2], b[1])
        h == TimeDiffHours(track, index, nextIndex)
    IN  IF h = << >> \/ dist <= 0 THEN << >>
        ELSE IF h[1] <= 0 THEN << >>
        ELSE LET P == 20 * h[1]
                 Q == 3 * dist
                 min == P \div Q
                 sec == (120 * (P % Q) + Q) \div (2 * Q)
             IN  << min, sec >>

(* Number.prototype.toString of a non-negative integer *)
Digit == << "0", "1", "2", "3", "4", "5", "6", "7", "8", "9" >>

RECURSIVE NumToString(_)
NumToString(n) ==
    IF n < 10 THEN Digit[n + 1]
    ELSE NumToString(n \div 10) \o Digit[(n % 10) + 1]

(* a padStart that pads nothing *)
PadStart_None(s, n, c) == s

(* String.prototype.padStart with a one-character filler *)
RECURSIVE PadStart(_, _, _)
PadStart(s, n, c) == IF Len(s) >= n THEN s ELSE PadStart(c \o s, n, c)

(* `${min}:${sec.toString().padStart(2, '0')} /km` *)
PaceLabel(p) ==
    NumToString(p[1]) \o ":" \o PadStart(NumToString(p[2]), 2, "0") \o " /km"

(* the text the pace panel is rendered with *)
DefaultPace == "5:00 /km"

(* paceRef.current = null: the pace panel is not rendered *)
NoPanel == "(no panel)"

(***************************************************************************)
(* Browser queues                                                          *)
(***************************************************************************)
(* requestAnimationFrame's handle: a number no pending callback carries;   *)
(* it also differs from the handle the component still remembers, as a    *)
(* browser never hands out the same handle twice.                          *)
FreshId(fs, remembered) ==
    CHOOSE i \in 1..MaxFrameIds : i \notin ({ f.id : f \in fs } \cup {remembered})

(* cancelAnimationFrame(id) *)
CancelFrame(fs, id) == { f \in fs : f.id # id }

(* a requestAnimationFrame that schedules nothing *)
RequestFrame_Dropped(fs, remembered, ph, track) == fs

(* requestAnimationFrame(animate): the callback carries the closure of the *)
(* startAnimation call that created animate (its photos and track).        *)
RequestFrame(fs, remembered, ph, track) ==
    fs \cup { [id |-> FreshId(fs, remembered), at |-> now, photos |-> ph,
               track |-> track] }

PhotoIds == 1..MaxPhotos

NoTick == [kind |-> "none", hit |-> 0, inBox |-> {}, fresh |-> {}]

NoResume == [at |-> -1, ticked |-> FALSE]

(***************************************************************************)
(* State after the component has mounted and the map has loaded            *)
(***************************************************************************)
(* updateTrack puts the runner on the track's first point *)
RunnerStart(track) ==
    IF track.hasLine /\ totalPoints(track) > 0
    THEN << Point(track, 0)[1] * duration, Point(track, 0)[2] * duration >>
    ELSE << >>

InitMap(tracks, uploaded) ==
    /\ now = 0
    /\ trackGeoJSON \in tracks
    /\ isPlaying = FALSE
    /\ isPaused = FALSE
    /\ lastPaceUpdateTime = 0
    /\ animationProgressTime = 0
    /\ lastFrameTime = 0
    /\ shownPhotoIds = {}
    /\ photos \in uploaded
    /\ activePhoto = 0
    /\ animationFrameId = 0
    /\ frames = {}
    /\ timers = {}
    /\ runnerPoint = RunnerStart(trackGeoJSON)
    /\ camera = << >>
    /\ paceText = NoPanel
    /\ recorder = "none"
    /\ trigCount = [i \in PhotoIds |-> 0]
    /\ lastTick = NoTick
    /\ lastResume = NoResume
    /\ galleryTimers = {}

(* The Home page shows the map (step = 'map') and no load is under way *)
InitWith(tracks, uploaded) ==
    /\ InitMap(tracks, uploaded)
    /\ mapCurrent = TRUE
    /\ step = "map"
    /\ fetches = {}
    /\ lastLoad = "none"

(* ... before any upload *)
InitOn(tracks) == InitWith(tracks, { << >> })

Init == InitOn(Tracks)

(* ... after the upload of one located photo *)
InitProximity == InitWith({TwoPointTrack}, ProxPhotos)

InitPace == InitOn(PaceTracks)

InitPositionAt == InitOn(PositionTracks)

(***************************************************************************)
(* The environment's clock                                                 *)
(***************************************************************************)
(* A resume callback that is due runs before the clock reaches the next    *)
(* sampled instant.                                                        *)
AdvanceClock ==
    /\ \A t \in timers : t.fireAt > now
    /\ \A g \in galleryTimers : g > now
    /\ \E t \in Instants : t > now /\ now' = t
    /\ UNCHANGED << mapCurrent, trackGeoJSON, isPlaying, isPaused,
                    lastPaceUpdateTime, animationProgressTime, lastFrameTime,
                    shownPhotoIds, photos, activePhoto, animationFrameId,
                    frames, timers, runnerPoint, camera, paceText, recorder,
                    trigCount, lastTick, lastResume,
                    galleryTimers, home >>

(***************************************************************************)
(* handlePhotoUpload                                                       *)
(***************************************************************************)
(* setPhotos acts on the mounted component only (the map is removed by the *)
(* unmount cleanup).                                                       *)
(* reader.onload: the placeholder photo is appended *)
ReaderOnload ==
    /\ mapCurrent
    /\ Len(photos) < MaxPhotos
    /\ photos' = Append(photos, [id |-> Len(photos) + 1, lat |-> 0, lng |-> 0,
                                 shown |-> FALSE, hasGPS |-> FALSE])
    /\ UNCHANGED << now, mapCurrent, trackGeoJSON, isPlaying, isPaused,
                    lastPaceUpdateTime, animationProgressTime, lastFrameTime,
                    shownPhotoIds, activePhoto, animationFrameId, frames,
                    timers, runnerPoint, camera, paceText, recorder,
                    trigCount, lastTick, lastResume,
                    galleryTimers, home >>

(* EXIF.getData's callback when the file carries a GPS position *)
ExifGps(i, pos) ==
    /\ mapCurrent
    /\ i \in 1..Len(photos)
    /\ ~photos[i].hasGPS
    /\ photos' = [photos EXCEPT ![i] = [@ EXCEPT !.lat = pos[1], !.lng = pos[2],
                                                 !.hasGPS = TRUE]]
    /\ UNCHANGED << now, mapCurrent, trackGeoJSON, isPlaying, isPaused,
                    lastPaceUpdateTime, animationProgressTime, lastFrameTime,
                    shownPhotoIds, activePhoto, animationFrameId, frames,
                    timers, runnerPoint, camera, paceText, recorder,
                    trigCount, lastTick, lastResume,
                    galleryTimers, home >>

(***************************************************************************)
(* startRecording and the effect cleanup                                   *)
(***************************************************************************)
(* The Export Video button is rendered while !isRecording; isRecording     *)
(* holds exactly while the recorder records.                               *)
StartRecording ==
    /\ recorder # "recording"
    /\ mapCurrent
    /\ recorder' = "recording"
    /\ paceText' = NoPanel
    /\ UNCHANGED << now, mapCurrent, trackGeoJSON, isPlaying, isPaused,
                    lastPaceUpdateTime, animationProgressTime, lastFrameTime,
                    shownPhotoIds, photos, activePhoto, animationFrameId,
                    frames, timers, runnerPoint, camera, trigCount, lastTick, lastResume,
                    galleryTimers, home >>

(* cleanup of the mount effect: map.current.remove(); map.current = null *)
RemoveMap ==
    /\ mapCurrent
    /\ mapCurrent' = FALSE
    /\ UNCHANGED << now, trackGeoJSON, isPlaying, isPaused,
                    lastPaceUpdateTime, animationProgressTime, lastFrameTime,
                    shownPhotoIds, photos, activePhoto, animationFrameId,
                    frames, timers, runnerPoint, camera, paceText, recorder,
                    trigCount, lastTick, lastResume,
                    galleryTimers, home >>

(***************************************************************************)
(* startAnimation                                                          *)
(***************************************************************************)
(* a cleanup block without cancelAnimationFrame *)
FramesAfterCleanup_NoCancel(fs, playing, id) == fs

(* The cleanup block: the remembered frame is cancelled when a run is on.  *)
(* Nothing in startAnimation clears a pending resume timer.                *)
FramesAfterCleanup(fs, playing, id) ==
    IF playing /\ id # 0 THEN CancelFrame(fs, id) ELSE fs

TimersAfterCleanup(ts) == { [t EXCEPT !.stale = TRUE] : t \in ts }

(* The Start button is rendered while !isRecording.  The first guard       *)
(* returns before anything is written; the !trackFeature guard returns     *)
(* after the reset.                                                        *)
StartAnimation ==
    /\ recorder # "recording"
    /\ mapCurrent
    /\ LET cleaned == FramesAfterCleanup(frames, isPlaying, animationFrameId)
       IN  /\ isPlaying' = TRUE
           /\ isPaused' = FALSE
           /\ lastPaceUpdateTime' = 0
           /\ animationProgressTime' = 0
           /\ lastFrameTime' = now
           /\ shownPhotoIds' = {}
           /\ photos' = [i \in 1..Len(photos) |-> [photos[i] EXCEPT !.shown = FALSE]]
           /\ timers' = TimersAfterCleanup(timers)
           /\ paceText' = IF isPlaying THEN paceText ELSE DefaultPace
           /\ trigCount' = [i \in PhotoIds |-> 0]
           /\ lastTick' = NoTick
           /\ lastResume' = NoResume
           /\ IF ~trackGeoJSON.hasLine
              THEN /\ frames' = cleaned
                   /\ animationFrameId' = animationFrameId
              ELSE /\ frames' = RequestFrame(cleaned, animationFrameId, photos,
                                             trackGeoJSON)
                   /\ animationFrameId' = FreshId(cleaned, animationFrameId)
    /\ UNCHANGED << now, mapCurrent, trackGeoJSON, activePhoto, runnerPoint,
                    camera, recorder, galleryTimers, home >>

(* startAnimation with map.current = null: returns at once *)
StartAnimationNoMap ==
    /\ recorder # "recording"
    /\ ~mapCurrent
    /\ UNCHANGED vars

(***************************************************************************)
(* animate, the requestAnimationFrame callback                             *)
(***************************************************************************)
(* the delta taken with the wrong sign *)
Advance_Backwards(elapsed, delta) == elapsed - delta

(* animationProgressTime.current += deltaTime *)
Advance(elapsed, delta) == elapsed + delta

(* Which return the call leaves by: "stopped" (first guard), "paused",     *)
(* "skipped" (a segment end is missing), "completed" (progress >= 1),      *)
(* "moved" (the end of the body).                                          *)
TickKind(mapOk, playing, paused, elapsed, track) ==
    IF ~mapOk \/ ~playing THEN "stopped"
    ELSE IF paused THEN "paused"
    ELSE IF FrameMalformed(elapsed, track) THEN "skipped"
    ELSE IF ProgressNum(elapsed) >= duration THEN "completed"
    ELSE "moved"

(* a guard that returns without requesting the next frame *)
Rearms_NotSkipped(kind) == kind \in {"paused", "moved"}

(* the returns that call requestAnimationFrame(animate) first *)
Rearms(kind) == kind \in {"paused", "skipped", "moved"}

(* time - lastPaceUpdateTime.current > 1000 *)
PaceDue(time, last) == time - last > 1000

Animate(f) ==
    /\ f \in frames
    /\ now > f.at
    /\ LET rest == frames \ {f}
           time == now
           elapsed == Advance(animationProgressTime, time - lastFrameTime)
           kind == TickKind(mapCurrent, isPlaying, isPaused, elapsed, f.track)
           body == kind \in {"completed", "moved"}
           lng == LngNum(elapsed, f.track)
           lat == LatNum(elapsed, f.track)
           hit == IF body THEN FirstMatch(f.photos, shownPhotoIds, lat, lng)
                  ELSE 0
           index == Index(elapsed, f.track)
           nextIndex == NextIndex(elapsed, f.track)
           pace == PaceOf(f.track, index, nextIndex)
           paceDue == kind = "moved" /\ PaceDue(time, lastPaceUpdateTime)
       IN  /\ lastFrameTime' = IF kind = "stopped" THEN lastFrameTime ELSE time
           /\ animationProgressTime' =
                  IF kind \in {"stopped", "paused"} THEN animationProgressTime
                  ELSE elapsed
           /\ runnerPoint' = IF body THEN << lng, lat >> ELSE runnerPoint
           /\ isPaused' = IF hit # 0 THEN TRUE ELSE isPaused
           /\ shownPhotoIds' = IF hit # 0
                               THEN shownPhotoIds \cup {f.photos[hit].id}
                               ELSE shownPhotoIds
           /\ activePhoto' = IF hit # 0 THEN f.photos[hit].id ELSE activePhoto
           /\ timers' = IF hit # 0
                        THEN timers \cup { [fireAt |-> time + PauseDelay,
                                            stale |-> FALSE,
                                            photo |-> f.photos[hit].id] }
                        ELSE timers
           /\ isPlaying' = IF kind = "completed" THEN FALSE ELSE isPlaying
           /\ recorder' = IF kind = "completed" /\ recorder = "recording"
                          THEN "inactive" ELSE recorder
           /\ paceText' = IF kind = "completed" THEN NoPanel
                          ELSE IF paceDue /\ pace # << >> /\ paceText # NoPanel
                          THEN PaceLabel(pace)
                          ELSE paceText
           /\ lastPaceUpdateTime' = IF paceDue THEN time ELSE lastPaceUpdateTime
           /\ camera' = IF kind = "moved"
                        THEN << lng, lat, Bearing(elapsed), 50, 14 >>
                        ELSE camera
           /\ frames' = IF Rearms(kind)
                        THEN RequestFrame(rest, animationFrameId, f.photos, f.track)
                        ELSE rest
           /\ animationFrameId' = IF Rearms(kind)
                                  THEN FreshId(rest, animationFrameId)
                                  ELSE animationFrameId
           /\ trigCount' = IF hit # 0
                           THEN [trigCount EXCEPT ![f.photos[hit].id] = @ + 1]
                           ELSE trigCount
           /\ lastTick' =
                  [kind |-> kind,
                   hit |-> IF hit # 0 THEN f.photos[hit].id ELSE 0,
                   inBox |-> IF body
                             THEN { f.photos[i].id : i \in
                                    { j \in 1..Len(f.photos) :
                                      InBox(f.photos[j], lat, lng) } }
                             ELSE {},
                   fresh |-> IF body
                             THEN { f.photos[i].id : i \in
                                    { j \in 1..Len(f.photos) :
                                      Matches(f.photos[j], shownPhotoIds,
                                              lat, lng) } }
                             ELSE {}]
           /\ lastResume' =
                  IF kind \in {"stopped", "paused"} THEN lastResume
                  ELSE IF lastResume.at >= 0 /\ ~lastResume.ticked
                  THEN [lastResume EXCEPT !.ticked = TRUE]
                  ELSE NoResume
    /\ UNCHANGED << now, mapCurrent, trackGeoJSON, photos, galleryTimers, home >>

(***************************************************************************)
(* The resume callback of a pause (setTimeout, 1000 ms)                    *)
(***************************************************************************)
(* a callback that leaves lastFrameTime.current alone *)
FrameTimeAfterResume_Kept(t, last) == last

(* lastFrameTime.current = performance.now() *)
FrameTimeAfterResume(t, last) == t

Resume(t) ==
    /\ t \in timers
    /\ now >= t.fireAt
    /\ timers' = timers \ {t}
    /\ activePhoto' = 0
    /\ isPaused' = FALSE
    /\ lastFrameTime' = FrameTimeAfterResume(now, lastFrameTime)
    /\ lastResume' = [at |-> now, ticked |-> FALSE]
    /\ UNCHANGED << now, mapCurrent, trackGeoJSON, isPlaying,
                    lastPaceUpdateTime, animationProgressTime, shownPhotoIds,
                    photos, animationFrameId, frames, runnerPoint, camera,
                    paceText, recorder, trigCount, lastTick, galleryTimers, home >>

(***************************************************************************)
(* The gallery: a click on a thumbnail and its setTimeout (3000 ms)        *)
(***************************************************************************)
(* The gallery is rendered while !isRecording, whether or not a run is on. *)
GalleryClick(i) ==
    /\ mapCurrent
    /\ recorder # "recording"
    /\ i \in 1..Len(photos)
    /\ Cardinality(galleryTimers) < MaxGalleryTimers
    /\ activePhoto' = photos[i].id
    /\ galleryTimers' = galleryTimers \cup {now + GalleryDelay}
    /\ UNCHANGED << now, mapCurrent, trackGeoJSON, isPlaying, isPaused,
                    lastPaceUpdateTime, animationProgressTime, lastFrameTime,
                    shownPhotoIds, photos, animationFrameId, frames, timers,
                    runnerPoint, camera, paceText, recorder, trigCount,
                    lastTick, lastResume, home >>

(* () => setActivePhoto(null) *)
GalleryTimeout(g) ==
    /\ g \in galleryTimers
    /\ now >= g
    /\ galleryTimers' = galleryTimers \ {g}
    /\ activePhoto' = 0
    /\ UNCHANGED << now, mapCurrent, trackGeoJSON, isPlaying, isPaused,
                    lastPaceUpdateTime, animationProgressTime, lastFrameTime,
                    shownPhotoIds, photos, animationFrameId, frames, timers,
                    runnerPoint, camera, paceText, recorder, trigCount,
                    lastTick, lastResume, home >>

(* The mounted component: uploads, Start clicks, frames and timers *)
Next ==
    \/ AdvanceClock
    \/ ReaderOnload
    \/ \E i \in 1..MaxPhotos, pos \in ExifPositions : ExifGps(i, pos)
    \/ StartAnimation
    \/ \E f \in frames : Animate(f)
    \/ \E t \in timers : Resume(t)

Spec == Init /\ [][Next]_vars

(* ... with clicks on the gallery; photos stay the placeholders *)
NextGallery ==
    \/ AdvanceClock
    \/ ReaderOnload
    \/ StartAnimation
    \/ \E f \in frames : Animate(f)
    \/ \E t \in timers : Resume(t)
    \/ \E i \in 1..MaxPhotos : GalleryClick(i)
    \/ \E g \in galleryTimers : GalleryTimeout(g)

SpecGallery == Init /\ [][NextGallery]_vars

(* A run without photos, on the tracks of the pace block *)
NextPace ==
    \/ AdvanceClock
    \/ StartAnimation
    \/ \E f \in frames : Animate(f)

SpecPace == InitPace /\ [][NextPace]_vars

(* The position computation of animate (progress, index, ratio and the     *)
(* interpolation) applied to a value of elapsed                            *)
PositionAt(elapsed) ==
    /\ trackGeoJSON.hasLine
    /\ ~FrameMalformed(elapsed, trackGeoJSON)
    /\ animationProgressTime' = elapsed
    /\ runnerPoint' = << LngNum(elapsed, trackGeoJSON),
                         LatNum(elapsed, trackGeoJSON) >>
    /\ UNCHANGED << now, mapCurrent, trackGeoJSON, isPlaying, isPaused,
                    lastPaceUpdateTime, lastFrameTime, shownPhotoIds, photos,
                    activePhoto, animationFrameId, frames, timers, camera,
                    paceText, recorder, trigCount, lastTick, lastResume,
                    galleryTimers, home >>

NextPositionAt == \E elapsed \in ElapsedSamples : PositionAt(elapsed)

SpecPositionAt == InitPositionAt /\ [][NextPositionAt]_vars

(* ... where the clock goes on, and the browser runs the frame callback    *)
(* and the resume callbacks it holds                                       *)
Fairness ==
    /\ WF_vars(AdvanceClock)
    /\ WF_vars(\E f \in frames : Animate(f))
    /\ WF_vars(\E t \in timers : Resume(t))

SpecLive == Spec /\ Fairness

(* A run on TwoPointTrack with the photo list of InitProximity *)
NextProximity ==
    \/ AdvanceClock
    \/ StartAnimation
    \/ \E f \in frames : Animate(f)
    \/ \E t \in timers : Resume(t)

SpecProximity == InitProximity /\ [][NextProximity]_vars

(* ... with video export *)
NextRecording ==
    \/ Next
    \/ StartRecording

SpecRecording == Init /\ [][NextRecording]_vars

(* ... with the unmount cleanup *)
NextTeardown ==
    \/ Next
    \/ RemoveMap
    \/ StartAnimationNoMap

SpecTeardown == Init /\ [][NextTeardown]_vars

(***************************************************************************)
(* The Home page: handleUpload, loadDemoRoute and the step buttons         *)
(***************************************************************************)
(* useState<any>(null) *)
NullTrack ==
    [hasLine |-> FALSE, coordinates |-> << >>, hasTimes |-> FALSE,
     coordTimes |-> << >>, null |-> TRUE]

(* Texts given to handleUpload or delivered by res.text(): the GPX of a    *)
(* track, a text parseGPX throws on, a page starting with <!DOCTYPE html>  *)
GpxTexts ==
    { [kind |-> "gpx", track |-> t] : t \in Tracks \cup {ThreePointTrack} }

BadText == [kind |-> "garbage", track |-> NullTrack]

HtmlText == [kind |-> "html", track |-> NullTrack]

FileTexts == GpxTexts \cup {BadText}

DemoTexts == GpxTexts \cup {BadText, HtmlText}

DemoPaths == {"tokyo-marathon.gpx", "fuji-marathon.gpx"}

(* parseGPX by its outcome: << track >>, or << >> when it throws *)
ParseGPX(text) == IF text.kind = "gpx" THEN << text.track >> ELSE << >>

(* text.trim().startsWith('<!DOCTYPE html>') *)
StartsWithDoctype(text) == text.kind = "html"

(* a handleUpload that sets the step before it parses *)
StepAfterUpload_BeforeParse(parsed, old) == "map"

(* setStep('map'), skipped when parseGPX throws *)
StepAfterUpload(parsed, old) == IF parsed = << >> THEN old ELSE "map"

(* setTrackGeoJSON(parsed), skipped when parseGPX throws *)
TrackAfterUpload(parsed, old) == IF parsed = << >> THEN old ELSE parsed[1]

(* the Map component's variables the Home page does not touch *)
player == << now, isPlaying, isPaused, lastPaceUpdateTime,
             animationProgressTime, lastFrameTime, shownPhotoIds, photos,
             activePhoto, animationFrameId, frames, timers, camera, paceText,
             recorder, trigCount, lastTick, lastResume, galleryTimers >>

(* handleUpload; <Map> is rendered, its map created and the track drawn    *)
(* on it, while step = 'map'                                               *)
HandleUpload(text) ==
    LET parsed == ParseGPX(text)
    IN  /\ trackGeoJSON' = TrackAfterUpload(parsed, trackGeoJSON)
        /\ step' = StepAfterUpload(parsed, step)
        /\ mapCurrent' = (step' = "map")
        /\ runnerPoint' = IF step' = "map" THEN RunnerStart(trackGeoJSON')
                          ELSE runnerPoint
        /\ lastLoad' = IF parsed = << >> THEN "parse error" ELSE "loaded"

(* Uploader: reader.onload calls onUpload with the file's text *)
Upload(text) ==
    /\ step = "upload"
    /\ text \in FileTexts
    /\ HandleUpload(text)
    /\ UNCHANGED << fetches, player >>

(* loadDemoRoute up to its first await *)
LoadDemoRoute(path) ==
    /\ step = "upload"
    /\ \A f \in fetches : f.path # path
    /\ fetches' = fetches \cup { [path |-> path, awaiting |-> "fetch"] }
    /\ UNCHANGED << trackGeoJSON, step, mapCurrent, runnerPoint, lastLoad,
                    player >>

(* await fetch(path) settles: rejected, a response that is not ok, or ok *)
FetchSettles(f, outcome) ==
    /\ f \in fetches
    /\ f.awaiting = "fetch"
    /\ IF outcome = "ok"
       THEN /\ fetches' = (fetches \ {f}) \cup { [f EXCEPT !.awaiting = "text"] }
            /\ UNCHANGED lastLoad
       ELSE /\ fetches' = fetches \ {f}
            /\ lastLoad' = "fetch error"
    /\ UNCHANGED << trackGeoJSON, step, mapCurrent, runnerPoint, player >>

(* await res.text() settles: the HTML test, then handleUpload(text) *)
TextSettles(f, text) ==
    /\ f \in fetches
    /\ f.awaiting = "text"
    /\ text \in DemoTexts
    /\ fetches' = fetches \ {f}
    /\ IF StartsWithDoctype(text)
       THEN /\ lastLoad' = "html"
            /\ UNCHANGED << trackGeoJSON, step, mapCurrent, runnerPoint >>
       ELSE HandleUpload(text)
    /\ UNCHANGED player

(* the Upload New File and Upload Another buttons: setStep('upload') *)
UploadAnother ==
    /\ step = "map"
    /\ step' = "upload"
    /\ mapCurrent' = FALSE
    /\ runnerPoint' = << >>
    /\ UNCHANGED << trackGeoJSON, fetches, lastLoad, player >>

(* the Home page before any load *)
InitHome ==
    /\ InitMap({NullTrack}, { << >> })
    /\ mapCurrent = FALSE
    /\ step = "upload"
    /\ fetches = {}
    /\ lastLoad = "none"

NextHome ==
    \/ \E text \in FileTexts : Upload(text)
    \/ \E path \in DemoPaths : LoadDemoRoute(path)
    \/ \E f \in fetches, outcome \in {"rejected", "not ok", "ok"} :
          FetchSettles(f, outcome)
    \/ \E f \in fetches, text \in DemoTexts : TextSettles(f, text)
    \/ UploadAnother

SpecHome == InitHome /\ [][NextHome]_vars

(***************************************************************************)
(* Properties                                                              *)
(***************************************************************************)
MinOf(S) == CHOOSE x \in S : \A y \in S : x <= y

(* an unpaused call of animate that got as far as the photo loop *)
BodyTick == lastTick.kind \in {"moved", "completed"}

(* C1: within one run (between two calls of startAnimation) no photo       *)
(* begins more than one pause, however many unpaused ticks find the        *)
(* position inside its box: a photo has begun a pause exactly when its id  *)
(* is in shownPhotoIds, and a photo found inside the box by an unpaused    *)
(* tick is in shownPhotoIds after it unless that tick paused on another.   *)
C1_TriggersOncePerRun ==
    /\ \A p \in PhotoIds :
          /\ trigCount[p] <= 1
          /\ (trigCount[p] = 1) <=> (p \in shownPhotoIds)
    /\ \A p \in lastTick.inBox : p \in shownPhotoIds \/ lastTick.hit # 0

(* an unpaused tick after the pause on p has ended finds the position      *)
(* still inside p's box and does not pause on p again                      *)
C1_Witness ==
    \E p \in PhotoIds :
        /\ trigCount[p] = 1
        /\ BodyTick
        /\ p \in lastTick.inBox
        /\ p \notin lastTick.fresh
        /\ lastTick.hit = 0
        /\ ~isPaused

(* C2: startAnimation cancels the previous run's resume timer: a resume    *)
(* callback scheduled before the latest startAnimation never changes       *)
(* isPaused, lastFrameTime or activePhoto, and at most one resume timer is *)
(* pending.                                                                *)
C2_StaleResumeIsCancelled ==
    /\ [][ \A t \in timers :
             (t.stale /\ Resume(t)) =>
                 /\ isPaused' = isPaused
                 /\ lastFrameTime' = lastFrameTime
                 /\ activePhoto' = activePhoto ]_vars
    /\ [](Cardinality(timers) <= 1)

(* C3: at most one frame callback is pending, it is the one whose handle   *)
(* animationFrameId remembers, and it belongs to a run that is playing.    *)
C3_OneFramePending ==
    /\ Cardinality(frames) <= 1
    /\ \A f \in frames : f.id = animationFrameId /\ isPlaying

(* startAnimation was called while the previous run was paused (its resume *)
(* timer is still pending) and one frame is pending                        *)
C3_Witness ==
    /\ Cardinality(frames) = 1
    /\ \E t \in timers : t.stale

(* C4: a tick taken while isPaused leaves elapsedMs and progress           *)
(* unchanged; any other tick does not decrease them.                       *)
C4_ProgressMonotone ==
    [][ \A f \in frames :
          Animate(f) =>
              IF isPaused
              THEN animationProgressTime' = animationProgressTime
              ELSE /\ animationProgressTime' >= animationProgressTime
                   /\ ProgressNum(animationProgressTime')
                          >= ProgressNum(animationProgressTime) ]_vars

(* a tick taken during a pause, after elapsedMs had advanced *)
C4_Witness ==
    /\ lastTick.kind = "paused"
    /\ animationProgressTime > 0
    /\ isPaused

(* C5: once an unpaused tick of a playing run has brought progress to 1,   *)
(* the marker is at the last track point, isPlaying is false and no frame  *)
(* is pending (so no later tick changes elapsedMs).                        *)
C5_CompletionStops ==
    (lastTick.kind \in {"skipped", "moved", "completed"}
        /\ animationProgressTime >= duration) =>
        /\ ~isPlaying
        /\ frames = {}
        /\ totalPoints(trackGeoJSON) > 0
        /\ runnerPoint =
               << Point(trackGeoJSON, totalPoints(trackGeoJSON) - 1)[1] * duration,
                  Point(trackGeoJSON, totalPoints(trackGeoJSON) - 1)[2] * duration >>

(* C6: isPaused implies isPlaying in every reachable state. *)
C6_PausedImpliesPlaying == isPaused => isPlaying

(* C7: when an unpaused tick finds unshown photos inside the box, it       *)
(* pauses on exactly one of them, the one uploaded first.                  *)
C7_FirstInsertedWins ==
    [][ \A f \in frames :
          Animate(f) =>
              LET fresh == lastTick'.fresh
              IN  IF fresh = {}
                  THEN /\ shownPhotoIds' = shownPhotoIds
                       /\ trigCount' = trigCount
                  ELSE /\ shownPhotoIds' = shownPhotoIds \cup {MinOf(fresh)}
                       /\ activePhoto' = MinOf(fresh)
                       /\ trigCount' =
                              [trigCount EXCEPT ![MinOf(fresh)] = @ + 1]
                       /\ isPaused' ]_vars

(* a tick found two unshown photos inside the box and paused on the first, *)
(* although the second was nearer to the position                          *)
C7_Witness ==
    /\ lastTick.fresh = {1, 2}
    /\ lastTick.hit = 1
    /\ \E f \in frames :
          /\ Len(f.photos) = 2
          /\ Abs(f.photos[2].lat * duration - runnerPoint[2])
                 < Abs(f.photos[1].lat * duration - runnerPoint[2])

(* C8: a photo whose location is not resolved (hasGPS = false, lat = lng = *)
(* 0) never begins a pause.                                                *)
C8_UnresolvedNeverTriggers ==
    \A i \in 1..Len(photos) :
        photos[i].id \in shownPhotoIds => photos[i].hasGPS

(* C9: startAnimation on a track without a LineString or with fewer than 2 *)
(* points leaves the playback state as it was.                             *)
C9_InvalidTrackRejected ==
    [][ (StartAnimation
           /\ (~trackGeoJSON.hasLine \/ totalPoints(trackGeoJSON) < 2)) =>
            UNCHANGED << isPlaying, isPaused, animationProgressTime,
                         shownPhotoIds, frames >> ]_vars

(* C10: a photo that has begun a pause in this run has its shown flag set. *)
C10_TriggeredIsFlaggedShown ==
    \A i \in 1..Len(photos) :
        trigCount[photos[i].id] > 0 => photos[i].shown

(* C11: the first unpaused tick after a resume callback adds to elapsedMs  *)
(* exactly the wall time since that callback ran, so the time spent        *)
(* paused is not part of elapsedMs.                                        *)
C11_PauseExcluded ==
    [][ \A f \in frames :
          (Animate(f) /\ lastResume.at >= 0 /\ ~lastResume.ticked
              /\ mapCurrent /\ isPlaying) =>
              /\ ~isPaused
              /\ animationProgressTime' - animationProgressTime
                     = now - lastResume.at ]_vars

(* a pause ran its full delay, was resumed, and a later tick moved on:     *)
(* elapsedMs lags the wall time of the run by at least the pause           *)
C11_Witness ==
    /\ lastResume.ticked
    /\ lastTick.kind = "moved"
    /\ lastFrameTime > lastResume.at
    /\ \E p \in PhotoIds : trigCount[p] = 1
    /\ animationProgressTime > 0
    /\ animationProgressTime + PauseDelay <= lastFrameTime

(* C12: a pause begun by a trigger of the current run lasts until the      *)
(* resume callback that trigger scheduled runs: while that callback is     *)
(* pending, isPaused is set and the active photo is the one that           *)
(* triggered.                                                              *)
C12_PauseLastsUntilItsResume ==
    \A t \in timers :
        ~t.stale => (isPaused /\ activePhoto = t.photo)

(* C13: while a run is playing or paused, the active photo is written only *)
(* by a tick or by a tick's resume callback.                               *)
C13_ActivePhotoWrittenByTicksOnly ==
    [][ (isPlaying /\ activePhoto' # activePhoto) =>
            \/ \E f \in frames : Animate(f)
            \/ \E t \in timers : Resume(t) ]_vars

(* the segment the latest tick stood on *)
SegIndex == Index(animationProgressTime, trackGeoJSON)

SegNext == NextIndex(animationProgressTime, trackGeoJSON)

(* both instants of that segment exist in coordTimes *)
SegTimed ==
    /\ trackGeoJSON.hasTimes
    /\ SegIndex + 1 <= Len(trackGeoJSON.coordTimes)
    /\ SegNext + 1 <= Len(trackGeoJSON.coordTimes)

(* its time difference in ms *)
SegDelta ==
    trackGeoJSON.coordTimes[SegNext + 1] - trackGeoJSON.coordTimes[SegIndex + 1]

SegSamePlace == Point(trackGeoJSON, SegIndex) = Point(trackGeoJSON, SegNext)

(* coordinate units between its two samples (segments are axis-parallel) *)
SegUnits ==
    Abs(Point(trackGeoJSON, SegNext)[1] - Point(trackGeoJSON, SegIndex)[1])
        + Abs(Point(trackGeoJSON, SegNext)[2] - Point(trackGeoJSON, SegIndex)[2])

(* the latest tick entered the pace block *)
PaceRan == lastTick.kind = "moved" /\ lastPaceUpdateTime = lastFrameTime

(* C14: on a track without coordTimes, or whose coordTimes array has not   *)
(* as many entries as the track has points, the pace panel never shows     *)
(* anything but the text it is rendered with.                              *)
C14_NoTimesNoPace ==
    (~trackGeoJSON.hasTimes
        \/ Len(trackGeoJSON.coordTimes) # totalPoints(trackGeoJSON)) =>
        paceText \in {NoPanel, DefaultPace}

(* C15: a tick on a segment whose pace is 30 whole minutes per km or more  *)
(* (a time difference of dt ms over u coordinate units of 0.0111195 km:    *)
(* dt / 60000 >= 30 * 0.0111195 * u, that is 10 * dt >= 200151 * u)        *)
(* leaves the pace text as it was.                                         *)
C15_SlowPaceNotEmitted ==
    [][ \A f \in frames :
          (Animate(f) /\ lastTick'.kind = "moved" /\ SegTimed' /\ SegUnits' > 0
              /\ 10 * SegDelta' >= 200151 * SegUnits') =>
              paceText' = paceText ]_vars

(* C16: a tick on a segment whose time difference is zero or negative, or  *)
(* whose two samples are at the same place, leaves the pace text as it     *)
(* was.                                                                    *)
C16_DegenerateSegmentNotEmitted ==
    [][ \A f \in frames :
          (Animate(f) /\ lastTick'.kind = "moved"
              /\ (SegSamePlace' \/ (SegTimed' /\ SegDelta' <= 0))) =>
              paceText' = paceText ]_vars

(* the pace block ran on such a segment and the panel still shows the      *)
(* pace an earlier segment had set                                         *)
C16_Witness ==
    /\ PaceRan
    /\ SegSamePlace \/ (SegTimed /\ SegDelta <= 0)
    /\ paceText \notin {NoPanel, DefaultPace}

(* C17: the pace block runs on every tick of a run that comes more than    *)
(* 1000 ms after its last run, paused or not (ticks of a track with fewer  *)
(* than 2 points and the completing tick aside).                           *)
C17_PaceRunsWhilePaused ==
    [][ \A f \in frames :
          (Animate(f) /\ mapCurrent /\ isPlaying
              /\ totalPoints(f.track) >= 2
              /\ lastTick'.kind # "completed"
              /\ now - lastPaceUpdateTime > 1000) =>
              lastPaceUpdateTime' = now ]_vars

(* two decimal digits *)
TwoDigits(n) == Digit[(n \div 10) + 1] \o Digit[(n % 10) + 1]

(* C18: after the pace block ran on a segment of positive distance d and   *)
(* positive time h (the default 0.000277 h without coordTimes), the pace   *)
(* text is "<M>:<SS> /km" with M = floor(60 h / d) and SS the rounded      *)
(* remaining seconds in two digits; on the track [[0,0],[0,0.001]] with    *)
(* instants 0 s and 10 s it is "1:30 /km".  P / Q is 60 h / d.             *)
C18_PaceFormat ==
    /\ (PaceRan /\ SegUnits > 0
          /\ (trackGeoJSON.hasTimes => (SegTimed /\ SegDelta > 0))) =>
          LET P == IF trackGeoJSON.hasTimes THEN 100 * SegDelta ELSE 99720
              Q == 66717 * SegUnits
              M == P \div Q
              SS == (120 * (P - M * Q) + Q) \div (2 * Q)
          IN  paceText = NumToString(M) \o ":" \o TwoDigits(SS) \o " /km"
    /\ (PaceRan /\ trackGeoJSON = TwoPointTrack) => paceText = "1:30 /km"

(* the pace block ran on that track *)
C18_Witness ==
    /\ PaceRan
    /\ trackGeoJSON = TwoPointTrack
    /\ paceText = "1:30 /km"

(* C19: the bearing of the last jumpTo is (elapsedMs * 0.02) mod 360 of    *)
(* the elapsedMs of the tick that made it, in [0, 360); paused ticks leave *)
(* both alone.  Pitch and zoom are 50 and 14.                              *)
C19_BearingFollowsElapsed ==
    (camera # << >> /\ lastTick.kind \in {"moved", "paused"}) =>
        /\ camera[3] = (animationProgressTime * 2) % 36000
        /\ 0 <= camera[3] /\ camera[3] < 36000
        /\ camera[4] = 50
        /\ camera[5] = 14

(* a tick during a pause, after the bearing has wrapped around *)
C19_Witness ==
    /\ camera # << >>
    /\ lastTick.kind = "paused"
    /\ animationProgressTime * 2 >= 36000
    /\ lastFrameTime > animationProgressTime

(* C20: on a track of N >= 2 points the position is the first point at     *)
(* progress 0, the last point at progress 1, and at progress 0.5 the       *)
(* point at fraction 0.5 * (N - 1) - lo of the way from sample lo =        *)
(* floor(0.5 * (N - 1)) to sample hi = ceiling(0.5 * (N - 1)).             *)
C20_PositionAtKeyProgress ==
    LET N == totalPoints(trackGeoJSON)
        e == animationProgressTime
        first == trackGeoJSON.coordinates[1]
        last == trackGeoJSON.coordinates[N]
        lo == trackGeoJSON.coordinates[((N - 1) \div 2) + 1]
        hi == trackGeoJSON.coordinates[(N \div 2) + 1]
        odd == (N - 1) % 2
    IN  N >= 2 =>
          /\ e = 0 => runnerPoint = << first[1] * duration, first[2] * duration >>
          /\ e >= duration =>
                runnerPoint = << last[1] * duration, last[2] * duration >>
          /\ 2 * e = duration =>
                /\ 2 * runnerPoint[1]
                       = duration * (2 * lo[1] + (hi[1] - lo[1]) * odd)
                /\ 2 * runnerPoint[2]
                       = duration * (2 * lo[2] + (hi[2] - lo[2]) * odd)

(* progress 0.5 on a track of 4 points: half way between the second and    *)
(* the third sample                                                        *)
C20_Witness ==
    /\ trackGeoJSON = FourPointTrack
    /\ 2 * animationProgressTime = duration
    /\ runnerPoint = << 5 * duration, 10 * duration >>

(* C21: the recorder is stopped by the tick on which progress reaches 1    *)
(* and by nothing else: a recording ends only on an unpaused tick of a     *)
(* playing run that brings elapsedMs to the duration and ends the run,     *)
(* and every such tick taken while a recording is active ends it.          *)
C21_RecorderStoppedAtCompletionOnly ==
    [][ /\ (recorder = "recording" /\ recorder' # "recording") =>
              \E f \in frames :
                  /\ Animate(f)
                  /\ isPlaying /\ ~isPaused
                  /\ animationProgressTime' >= duration
                  /\ ~isPlaying'
        /\ \A f \in frames :
              (Animate(f) /\ mapCurrent /\ isPlaying /\ ~isPaused
                  /\ animationProgressTime' >= duration
                  /\ recorder = "recording") =>
                  recorder' = "inactive" ]_vars

(* C22: after startAnimation on a track with a LineString of at least 2    *)
(* points, whatever the state before, elapsedMs (and so progress) is 0,    *)
(* isPlaying is set, isPaused is clear, no photo is marked shown, and      *)
(* exactly one frame callback is pending, the one animationFrameId names.  *)
C22_StartResets ==
    [][ (StartAnimation /\ trackGeoJSON.hasLine
            /\ totalPoints(trackGeoJSON) >= 2) =>
            /\ animationProgressTime' = 0
            /\ ProgressNum(animationProgressTime') = 0
            /\ isPlaying'
            /\ ~isPaused'
            /\ shownPhotoIds' = {}
            /\ \A i \in 1..Len(photos') : ~photos'[i].shown
            /\ Cardinality(frames') = 1
            /\ \A f \in frames' : f.id = animationFrameId' ]_vars

(* startAnimation was called during a pause, after elapsedMs had advanced: *)
(* the overlay of that pause is still up and its resume callback is still  *)
(* pending                                                                 *)
C22_Witness ==
    /\ lastTick = NoTick
    /\ isPlaying /\ ~isPaused
    /\ animationProgressTime = 0
    /\ Cardinality(frames) = 1
    /\ activePhoto # 0
    /\ \E t \in timers : t.stale /\ t.fireAt > PauseDelay + Fine

(* C23: every unpaused tick of a playing run (on a track of at least 2     *)
(* points) passes to jumpTo the position, bearing, pitch and zoom of that  *)
(* tick, the tick that pauses on a photo and the completing tick included. *)
C23_CameraEveryUnpausedTick ==
    [][ \A f \in frames :
          (Animate(f) /\ mapCurrent /\ isPlaying /\ ~isPaused
              /\ totalPoints(f.track) >= 2) =>
              camera' = << runnerPoint'[1], runnerPoint'[2],
                           (animationProgressTime' * 2) % 36000, 50, 14 >> ]_vars

(* C24: an unpaused tick of a playing run whose segment end is missing     *)
(* (the track has no points, so every index is out of bounds) writes no    *)
(* marker, camera, pace or photo state, starts no pause, leaves the run    *)
(* playing and requests the next frame.                                    *)
C24_MalformedFrameSkipped ==
    [][ \A f \in frames :
          (Animate(f) /\ mapCurrent /\ isPlaying /\ ~isPaused
              /\ totalPoints(f.track) = 0) =>
              /\ UNCHANGED << runnerPoint, camera, paceText,
                              lastPaceUpdateTime, shownPhotoIds, activePhoto,
                              timers, isPaused, isPlaying, recorder >>
              /\ Cardinality(frames') = 1
              /\ \A g \in frames' : g.id = animationFrameId' /\ g.at = now ]_vars

(* a second skipped tick of the same run, with photos uploaded *)
C24_Witness ==
    /\ lastTick.kind = "skipped"
    /\ isPlaying
    /\ Cardinality(frames) = 1
    /\ animationProgressTime > Fine
    /\ lastFrameTime > Fine
    /\ \E f \in frames : Len(f.photos) > 0 /\ totalPoints(f.track) = 0

C26_StrictBox ==
    [][ \A f \in frames :
          (Animate(f) /\ lastTick'.kind \in {"moved", "completed"}) =>
              LET cand == { i \in 1..Len(f.photos) :
                              /\ f.photos[i].id \notin shownPhotoIds
                              /\ Abs(f.photos[i].lat * duration - runnerPoint'[2])
                                     < Threshold * duration
                              /\ Abs(f.photos[i].lng * duration - runnerPoint'[1])
                                     < Threshold * duration }
              IN  /\ cand = {} =>
                        /\ shownPhotoIds' = shownPhotoIds
                        /\ timers' = timers
                        /\ isPaused' = isPaused
                        /\ activePhoto' = activePhoto
                  /\ cand # {} =>
                        \E i \in cand :
                            /\ shownPhotoIds' = shownPhotoIds \cup {f.photos[i].id}
                            /\ activePhoto' = f.photos[i].id
                            /\ isPaused' ]_vars

(* an unpaused tick with an unshown photo exactly 0.0005 degrees away in   *)
(* latitude and closer than that in longitude: no pause                    *)
C26_Witness ==
    /\ lastTick.kind = "moved"
    /\ lastTick.hit = 0
    /\ ~isPaused
    /\ \E i \in 1..Len(photos) :
          /\ photos[i].id \notin shownPhotoIds
          /\ Abs(photos[i].lat * duration - runnerPoint[2]) = Threshold * duration
          /\ Abs(photos[i].lng * duration - runnerPoint[1]) < Threshold * duration

(* C27: on a track of N >= 2 points the segment of any elapsedMs has       *)
(* 0 <= index <= nextIndex <= N - 1, nextIndex = min(index + 1, N - 1),    *)
(* and a ratio in [0, 1), so both ends of the segment exist.               *)
C27_SegmentInBounds ==
    LET N == totalPoints(trackGeoJSON)
        i == Index(animationProgressTime, trackGeoJSON)
        j == NextIndex(animationProgressTime, trackGeoJSON)
        r == RatioNum(animationProgressTime, trackGeoJSON)
    IN  N >= 2 =>
          /\ 0 <= i /\ i <= j /\ j <= N - 1
          /\ j = IF i + 1 <= N - 1 THEN i + 1 ELSE N - 1
          /\ 0 <= r /\ r < duration
          /\ i + 1 \in DOMAIN trackGeoJSON.coordinates
          /\ j + 1 \in DOMAIN trackGeoJSON.coordinates

(* progress 1 on a track of 4 points: both indices are the last one *)
C27_Witness ==
    /\ trackGeoJSON = FourPointTrack
    /\ animationProgressTime > duration
    /\ Index(animationProgressTime, trackGeoJSON) = 3
    /\ NextIndex(animationProgressTime, trackGeoJSON) = 3
    /\ runnerPoint = << 10 * duration, 4 * duration >>

(* C28: a tick taken while isPaused starts no pause, schedules no resume   *)
(* callback and writes no marker; and a tick starts a pause only when no   *)
(* resume callback of the current run is pending.                          *)
C28_NoTriggerWhilePaused ==
    [][ \A f \in frames :
          /\ (Animate(f) /\ mapCurrent /\ isPlaying /\ isPaused) =>
                UNCHANGED << shownPhotoIds, activePhoto, timers, runnerPoint,
                             trigCount >>
          /\ (Animate(f) /\ timers' # timers) =>
                \A t \in timers : t.stale ]_vars

(* C29: photos of a run that lie at the same place start their pauses in   *)
(* upload order, one pause each: a later one has been paused on only if    *)
(* every earlier one has, and every unpaused tick that finds an unshown    *)
(* photo of the run inside the box starts a pause.                         *)
C29_OnePausePerPhotoInOrder ==
    /\ [](\A f \in frames : \A i, j \in 1..Len(f.photos) :
            (i < j /\ f.photos[i].lat = f.photos[j].lat
                   /\ f.photos[i].lng = f.photos[j].lng
                   /\ f.photos[j].id \in shownPhotoIds) =>
                f.photos[i].id \in shownPhotoIds)
    /\ [][ \A f \in frames :
             (Animate(f) /\ lastTick'.kind \in {"moved", "completed"}
                /\ \E i \in 1..Len(f.photos) :
                      /\ f.photos[i].id \notin shownPhotoIds
                      /\ Abs(f.photos[i].lat * duration - runnerPoint'[2])
                             < Threshold * duration
                      /\ Abs(f.photos[i].lng * duration - runnerPoint'[1])
                             < Threshold * duration) =>
                 /\ isPaused'
                 /\ Cardinality(shownPhotoIds') = Cardinality(shownPhotoIds) + 1
                 /\ \A p \in PhotoIds : trigCount'[p] <= 1 ]_vars

(* two photos at the same place: the run paused on the first, was resumed, *)
(* and its first unpaused tick after that paused on the second             *)
C29_Witness ==
    /\ trigCount[1] = 1 /\ trigCount[2] = 1
    /\ lastTick.hit = 2
    /\ lastResume.ticked
    /\ isPaused
    /\ timers # {}
    /\ \A t \in timers : ~t.stale /\ t.photo = 2
    /\ \E f \in frames :
          /\ Len(f.photos) = 2
          /\ f.photos[1].lat = f.photos[2].lat
          /\ f.photos[1].lng = f.photos[2].lng

(* C30: a run pauses only on photos of the list it was started with that   *)
(* are still in the list unchanged: a photo added after the start, or one  *)
(* whose position the EXIF callback set after the start, starts no pause   *)
(* in that run.                                                            *)
C30_OnlyPhotosAsOfStart ==
    [][ \A f \in frames :
          Animate(f) =>
            \A p \in shownPhotoIds' \ shownPhotoIds :
               \E i \in 1..Len(f.photos) : \E k \in 1..Len(photos) :
                  /\ f.photos[i].id = p
                  /\ photos[k] = f.photos[i] ]_vars

(* pace strings of up to 99 minutes whose seconds field is 00 to 59 *)
SecondsInRange ==
    { NumToString(m) \o ":" \o TwoDigits(sec) \o " /km" :
        m \in 0..99, sec \in 0..59 }

(* C31: the pace text written by the pace block is minutes, a colon and a  *)
(* seconds field of 00 to 59, never 60.                                    *)
C31_SecondsBelowSixty ==
    (PaceRan /\ paceText # NoPanel) => paceText \in SecondsInRange

(* C32: once the map has been removed, a call of animate changes nothing   *)
(* and requests no frame, and a resume callback of the run changes neither *)
(* isPaused nor lastFrameTime.                                             *)
C32_NothingAfterTeardown ==
    [][ /\ \A f \in frames :
             (Animate(f) /\ ~mapCurrent) =>
                 /\ frames' = frames \ {f}
                 /\ UNCHANGED << isPlaying, isPaused, animationProgressTime,
                                 lastFrameTime, lastPaceUpdateTime,
                                 shownPhotoIds, activePhoto, timers,
                                 runnerPoint, camera, paceText, recorder >>
        /\ \A t \in timers :
             (Resume(t) /\ ~mapCurrent) =>
                 UNCHANGED << isPaused, lastFrameTime >> ]_vars

====
